---- MODULE Spec2Model ----
(***************************************************************************)
(* Model of the cerealbar training driver (agent/learning/training.py) and *)
(* of the ModelWrapper base class                                          *)
(* (agent/model/model_wrappers/model_wrapper.py).                          *)
(*                                                                         *)
(* Spec      : the life of a ModelWrapper in a process that may construct  *)
(*             a new wrapper over the same filesystem.                     *)
(* SpecTrain : one run of training.train, statement group by statement     *)
(*             group.                                                      *)
(***************************************************************************)
EXTENDS Integers, Sequences, FiniteSets, TLC

VARIABLES
    \* ---- ModelWrapper ----
    deviceCount,      \* what torch.cuda.device_count() returns now
    _args,            \* self._args
    _task,            \* self._task
    _parallelized,    \* self._parallelized
    _model,           \* self._model, the object as a chain of containers
    params,           \* the parameter values of the owned module
    training,         \* the training-mode flag of the owned module
    onCuda,           \* whether the owned module's parameters are on the GPU
    fs,               \* the filesystem: file name -> stored state dict
    saved,            \* history: what the last completed save of a file stored
    constructedWith,  \* history: the device count and task __init__ observed
    putCalls,         \* history: _put_on_device calls since self._model was assigned
    last,             \* the last call on the wrapper and how it ended
    \* ---- training.train ----
    pc,               \* position in train
    progArgs,         \* the ProgramArgs bundle
    vocabulary,       \* the local variable vocabulary
    best_epoch_filename, \* the local variable best_epoch_filename
    calls,            \* the calls train made on its collaborators, in order
    raised            \* the exception that ended train, or "none"

wvars == <<deviceCount, _args, _task, _parallelized, _model, params, training,
           onCuda, fs, saved, constructedWith, putCalls, last>>
tvars == <<pc, progArgs, vocabulary, best_epoch_filename, calls, raised>>
vars == <<wvars, tvars>>

----------------------------------------------------------------------------
(* Bounds of the model.                                                    *)

\* largest device count the environment reports
MaxDevices == 2
\* largest number of nested DataParallel containers explored
MaxWrap == 2
\* longest pretrained-plan-predictor file path, in characters
MaxPathLen == 3
\* largest number of entries of the execution-accuracy results
MaxMetrics == 2

----------------------------------------------------------------------------
(* Values.                                                                 *)

\* model_args.Task: the two members train names, and one other member.
Tasks == {"PLAN_PREDICTOR", "ACTION_GENERATOR", "OTHER_TASK"}

\* Snapshots of the owned module's parameter values.
Thetas == {"theta0", "theta1"}
\* The names of the owned module's parameters.
ParamNames == {"weight", "bias"}
Files == {"f1", "f2"}

\* Python's None, and the module a concrete wrapper attaches.
None == <<"None">>
OwnedModule == <<"Module">>
\* The outcome of an attribute lookup that raises AttributeError.
NoAttr == <<"AttributeError">>
\* A path with no file behind it.
NoFile == {}
\* The history of a file no wrapper has saved.
NotSaved == [written |-> FALSE, theta |-> "theta0", by |-> FALSE]

----------------------------------------------------------------------------
(* torch.nn objects, as far as the wrapper uses them.                      *)

\* nn.DataParallel(m): a container whose only child, `module`, is m.
DataParallel(m) == <<"DataParallel">> \o m

\* obj.module: defined on a DataParallel container only.
ModuleAttr(obj) == IF Head(obj) = "DataParallel" THEN Tail(obj) ELSE NoAttr

\* Whether obj is an nn.Module (a container or the owned module).
IsNNModule(obj) == Head(obj) \in {"DataParallel", "Module"}

\* The leaf of the chain: the owned module, or None.
Leaf(obj) == <<obj[Len(obj)]>>

\* The number of containers around the leaf.
WrapDepth(obj) == Len(obj) - 1

\* The dotted prefix nn.Module.named_parameters puts before a child's names.
RECURSIVE Prefix(_)
Prefix(obj) ==
    IF Head(obj) = "DataParallel" THEN <<"module">> \o Prefix(Tail(obj)) ELSE <<>>

\* obj.named_parameters(): (name, tensor) pairs; a tensor is named by the
\* snapshot it belongs to and its own name in the owned module.
NamedParametersOf(obj, th) ==
    IF Leaf(obj) = OwnedModule
    THEN {<<Prefix(obj) \o <<n>>, <<th, n>>>> : n \in ParamNames}
    ELSE {}

\* obj.parameters(): the tensors alone.
ParametersOf(obj, th) == {p[2] : p \in NamedParametersOf(obj, th)}

----------------------------------------------------------------------------
(* The owned module's save and load (concrete model classes).              *)

\* module.save(f) stores the module's own state dict under f.
ModuleSave(f, th) == [fs EXCEPT ![f] = NamedParametersOf(OwnedModule, th)]

\* Whether module.load(f) can restore from f: the file exists and its keys
\* are the module's own parameter names.
ModuleLoadable(f) ==
    \E th \in Thetas : fs[f] = NamedParametersOf(OwnedModule, th)

\* The parameter values module.load(f) restores.
ModuleLoad(f) == CHOOSE th \in Thetas : fs[f] = NamedParametersOf(OwnedModule, th)

----------------------------------------------------------------------------
(* ModelWrapper.                                                           *)

\* The record of a call: the method, its file argument ("-" when it has
\* none), how it ended, the object the call was forwarded to, its result, and
\* the owned module's parameter values when the call was made.
Call(op, f, outcome, receiver, ret) ==
    [op |-> op, file |-> f, outcome |-> outcome, receiver |-> receiver, ret |-> ret,
     before |-> params]

\* Mutant of InitTask: the task is a fixed default, not the configured one.
InitTaskDefault(margs) == "PLAN_PREDICTOR"
\* __init__: self._task = model_arguments.get_task()
InitTask(margs) == margs.task

\* Mutant of InitParallelized: one device is enough to parallelize.
InitParallelizedAnyDevice(dc) == dc > 0
\* __init__: self._parallelized is True exactly when device_count() > 1
InitParallelized(dc) == dc > 1

\* Mutant of PutOnDeviceModel: the module is wrapped whatever the flag says.
PutOnDeviceModelAlwaysWraps == DataParallel(_model)
\* _put_on_device: self._model after the `if self._parallelized` statement
PutOnDeviceModel ==
    IF _parallelized THEN DataParallel(_model) ELSE _model

\* Mutants of the receivers: the call goes to self._model, not unwrapped.
NamedParametersReceiverNoUnwrap == _model
LoadReceiverNoUnwrap == _model
SaveReceiverNoUnwrap == _model

\* The object each forwarding method calls into.
NamedParametersReceiver == IF _parallelized THEN ModuleAttr(_model) ELSE _model
ParametersReceiver == _model
LoadReceiver == IF _parallelized THEN ModuleAttr(_model) ELSE _model
SaveReceiver == IF _parallelized THEN ModuleAttr(_model) ELSE _model
PredictionsReceiver == IF _parallelized THEN ModuleAttr(_model) ELSE _model

\* Methods only the concrete model class defines (save, load,
\* get_predictions) exist on the owned module alone.
HasModelMethods(obj) == obj = OwnedModule

\* ModelWrapper(model_arguments): a new wrapper in this process.
Construct ==
    \E t \in Tasks :
        /\ _args' = [task |-> t]
        /\ _task' = InitTask([task |-> t])
        /\ _parallelized' = InitParallelized(deviceCount)
        /\ _model' = None
        /\ params' = "theta0"
        /\ training' = TRUE
        /\ onCuda' = FALSE
        /\ constructedWith' = [devices |-> deviceCount, task |-> t]
        /\ putCalls' = 0
        /\ last' = Call("__init__", "-", "ok", None, None)
        /\ UNCHANGED <<deviceCount, fs, saved, tvars>>

\* The concrete wrapper's constructor assigns the module it built.
AttachModule ==
    /\ Leaf(_model) = None
    /\ \E th \in Thetas : params' = th
    /\ _model' = OwnedModule
    /\ training' = TRUE
    /\ onCuda' = FALSE
    /\ putCalls' = 0
    /\ last' = Call("attach", "-", "ok", OwnedModule, None)
    /\ UNCHANGED <<deviceCount, _args, _task, _parallelized, fs, saved,
                   constructedWith, tvars>>

\* The number of visible devices changes.
DeviceCountChanges ==
    /\ \E dc \in 0..MaxDevices : dc # deviceCount /\ deviceCount' = dc
    /\ UNCHANGED <<_args, _task, _parallelized, _model, params, training, onCuda,
                   fs, saved, constructedWith, putCalls, last, tvars>>

\* An optimizer step of train_loop changes the parameter values.
OptimizerStep ==
    /\ Leaf(_model) = OwnedModule
    /\ \E th \in Thetas : th # params /\ params' = th
    /\ last' = Call("optimizer_step", "-", "ok", OwnedModule, None)
    /\ UNCHANGED <<deviceCount, _args, _task, _parallelized, _model, training,
                   onCuda, fs, saved, constructedWith, putCalls, tvars>>

\* _put_on_device: wrap if parallelized, move to the GPU if there is one
_put_on_device ==
    /\ putCalls < MaxWrap
    /\ putCalls' = putCalls + 1
    /\ LET m == PutOnDeviceModel IN
       /\ _model' = m
       /\ IF ~IsNNModule(m)
          THEN \* None.cuda() or None.parameters()
               /\ onCuda' = onCuda
               /\ last' = Call("_put_on_device", "-", "AttributeError", m, None)
          ELSE IF Leaf(m) # OwnedModule
          THEN \* next() of an empty parameter iterator
               /\ onCuda' = onCuda
               /\ last' = Call("_put_on_device", "-", "StopIteration", m, None)
          ELSE /\ onCuda' = (onCuda \/ deviceCount > 0)
               /\ last' = Call("_put_on_device", "-", "ok", m, None)
    /\ UNCHANGED <<deviceCount, _args, _task, _parallelized, params, training,
                   fs, saved, constructedWith, tvars>>

\* named_parameters
named_parameters ==
    /\ LET r == NamedParametersReceiver IN
       last' = IF IsNNModule(r)
               THEN Call("named_parameters", "-", "ok", r, NamedParametersOf(r, params))
               ELSE Call("named_parameters", "-", "AttributeError", r, None)
    /\ UNCHANGED <<deviceCount, _args, _task, _parallelized, _model, params,
                   training, onCuda, fs, saved, constructedWith, putCalls, tvars>>

\* get_arguments
get_arguments ==
    /\ last' = Call("get_arguments", "-", "ok", None, _args)
    /\ UNCHANGED <<deviceCount, _args, _task, _parallelized, _model, params,
                   training, onCuda, fs, saved, constructedWith, putCalls, tvars>>

\* parameters
parameters ==
    /\ LET r == ParametersReceiver IN
       last' = IF IsNNModule(r)
               THEN Call("parameters", "-", "ok", r, ParametersOf(r, params))
               ELSE Call("parameters", "-", "AttributeError", r, None)
    /\ UNCHANGED <<deviceCount, _args, _task, _parallelized, _model, params,
                   training, onCuda, fs, saved, constructedWith, putCalls, tvars>>

\* train
train ==
    /\ IF IsNNModule(_model)
       THEN /\ training' = TRUE
            /\ last' = Call("train", "-", "ok", _model, _model)
       ELSE /\ training' = training
            /\ last' = Call("train", "-", "AttributeError", _model, None)
    /\ UNCHANGED <<deviceCount, _args, _task, _parallelized, _model, params,
                   onCuda, fs, saved, constructedWith, putCalls, tvars>>

\* eval
eval ==
    /\ IF IsNNModule(_model)
       THEN /\ training' = FALSE
            /\ last' = Call("eval", "-", "ok", _model, _model)
       ELSE /\ training' = training
            /\ last' = Call("eval", "-", "AttributeError", _model, None)
    /\ UNCHANGED <<deviceCount, _args, _task, _parallelized, _model, params,
                   onCuda, fs, saved, constructedWith, putCalls, tvars>>

\* load(filename)
load(f) ==
    /\ LET r == LoadReceiver IN
       IF ~HasModelMethods(r)
       THEN /\ params' = params
            /\ last' = Call("load", f, "AttributeError", r, None)
       ELSE IF ~ModuleLoadable(f)
       THEN /\ params' = params
            /\ last' = Call("load", f, "LoadError", r, None)
       ELSE /\ params' = ModuleLoad(f)
            /\ last' = Call("load", f, "ok", r, None)
    /\ UNCHANGED <<deviceCount, _args, _task, _parallelized, _model, training,
                   onCuda, fs, saved, constructedWith, putCalls, tvars>>

\* save(filename)
save(f) ==
    /\ LET r == SaveReceiver IN
       IF ~HasModelMethods(r)
       THEN /\ fs' = fs
            /\ saved' = saved
            /\ last' = Call("save", f, "AttributeError", r, None)
       ELSE /\ fs' = ModuleSave(f, params)
            /\ saved' = [saved EXCEPT ![f] = [written |-> TRUE, theta |-> params, by |-> _parallelized]]
            /\ last' = Call("save", f, "ok", r, None)
    /\ UNCHANGED <<deviceCount, _args, _task, _parallelized, _model, params,
                   training, onCuda, constructedWith, putCalls, tvars>>

\* get_predictions
get_predictions ==
    /\ LET r == PredictionsReceiver IN
       last' = IF HasModelMethods(r)
               THEN Call("get_predictions", "-", "ok", r, <<"predictions", params>>)
               ELSE Call("get_predictions", "-", "AttributeError", r, None)
    /\ UNCHANGED <<deviceCount, _args, _task, _parallelized, _model, params,
                   training, onCuda, fs, saved, constructedWith, putCalls, tvars>>

\* get_task
get_task ==
    /\ last' = Call("get_task", "-", "ok", None, _task)
    /\ UNCHANGED <<deviceCount, _args, _task, _parallelized, _model, params,
                   training, onCuda, fs, saved, constructedWith, putCalls, tvars>>

----------------------------------------------------------------------------
(* training.train.                                                         *)

\* typing.TYPE_CHECKING: False whenever the program runs.
TYPE_CHECKING == FALSE

\* Whether the name model_args is bound in training.py's namespace when
\* train runs: it is imported under `if TYPE_CHECKING:` only.
ModelArgsBound == TYPE_CHECKING

\* Whether the name final_goal_acc is bound when line 108 reads it: nothing
\* in training.py assigns or imports it.
FinalGoalAccBound == FALSE

\* The characters of a file path, and the paths explored.
Chars == {"/", "a", "b"}
Paths == UNION {[1..n -> Chars] : n \in 0..MaxPathLen}
\* training_arguments.get_save_directory()
SaveDirectory == <<"save_dir">>
\* The paths train_loop may return.
CheckpointPaths == {<<"epoch1">>, <<"epoch2">>}
\* The vocabularies a dataset may yield.
DatasetVocabularies == {"vocabA", "vocabB"}

\* str.split(sep): the pieces between the separators, empty pieces included.
RECURSIVE Split(_, _)
Split(str, sep) ==
    IF \A i \in 1..Len(str) : str[i] # sep
    THEN <<str>>
    ELSE LET i == CHOOSE k \in 1..Len(str) :
                      str[k] = sep /\ \A j \in 1..(k - 1) : str[j] # sep
         IN <<SubSeq(str, 1, i - 1)>> \o Split(SubSeq(str, i + 1, Len(str)), sep)

\* sep.join(pieces)
RECURSIVE Join(_, _)
Join(pieces, sep) ==
    IF pieces = <<>> THEN <<>>
    ELSE IF Len(pieces) = 1 THEN pieces[1]
    ELSE pieces[1] \o <<sep>> \o Join(Tail(pieces), sep)

\* pieces[:-1]
AllButLast(pieces) == SubSeq(pieces, 1, Len(pieces) - 1)

\* Mutant of VocabFile: the [:-1] slice is forgotten.
VocabFileWholePath(filepath) == Join(Split(filepath, "/"), "/")
\* vocab_file = '/'.join(filepath.split('/')[:-1])
VocabFile(filepath) == Join(AllButLast(Split(filepath, "/")), "/")

\* The record of a call train makes: the function, its argument, its result.
Called(fn, arg, ret) == [fn |-> fn, arg |-> arg, ret |-> ret]

\* util.send_slack_message, made only when log_with_slack() holds.
Slack(message) ==
    IF progArgs.slack THEN <<Called("send_slack_message", message, <<>>)>> ELSE <<>>

\* Mutant of ReloadArgument: the first checkpoint is reloaded, not the best.
ReloadFirstCheckpoint == <<"epoch1">>
\* The argument of model.load at line 94.
ReloadArgument == best_epoch_filename

\* Lines 35-67: experiment, starting notification, saved arguments, data.
Setup ==
    /\ pc = "start"
    /\ calls' = calls
          \o <<Called("create_experiment", <<>>, <<>>)>>
          \o Slack(<<"Starting!">>)
          \o <<Called("save_args", SaveDirectory, <<>>),
               Called("load_data", <<"TRAIN">>, <<>>),
               Called("load_data", <<"DEV">>, <<>>),
               Called("GameDataset", <<>>, <<>>),
               Called("save_validation_split", SaveDirectory, <<>>)>>
    /\ pc' = "vocabulary"
    /\ UNCHANGED <<progArgs, vocabulary, best_epoch_filename, raised, wvars>>

\* Lines 69-80: the vocabulary is loaded or derived and saved.
ResolveVocabulary ==
    /\ pc = "vocabulary"
    /\ IF progArgs.pretrained
       THEN LET vocab_file == VocabFile(progArgs.filepath) IN
            /\ vocabulary' = [source |-> "file", value |-> vocab_file]
            /\ calls' = Append(calls,
                   Called("load_vocabulary", vocab_file, vocab_file))
       ELSE /\ vocabulary' = [source |-> "dataset",
                              value |-> <<progArgs.datasetVocabulary>>]
            /\ calls' = calls
                   \o <<Called("get_instruction_vocabulary", <<>>,
                               <<progArgs.datasetVocabulary>>),
                        Called("save_vocabulary", SaveDirectory, <<>>)>>
    /\ pc' = "create"
    /\ UNCHANGED <<progArgs, best_epoch_filename, raised, wvars>>

\* Lines 82-86: the model wrapper is created with the vocabulary.
CreateModelWrapper ==
    /\ pc = "create"
    /\ calls' = Append(calls,
           Called("get_model_wrapper",
                  <<vocabulary.source>> \o vocabulary.value, <<>>))
    /\ pc' = "train_loop"
    /\ UNCHANGED <<progArgs, vocabulary, best_epoch_filename, raised, wvars>>

\* Lines 89-93: the wrapper's train_loop returns the best checkpoint's path.
RunTrainLoop ==
    /\ pc = "train_loop"
    /\ \E path \in CheckpointPaths :
         /\ best_epoch_filename' = path
         /\ calls' = Append(calls, Called("train_loop", <<>>, path))
    /\ pc' = "load"
    /\ UNCHANGED <<progArgs, vocabulary, raised, wvars>>

\* Line 94: model.load(best_epoch_filename)
ReloadBest ==
    /\ pc = "load"
    /\ calls' = Append(calls, Called("load", ReloadArgument, <<>>))
    /\ pc' = "notify"
    /\ UNCHANGED <<progArgs, vocabulary, best_epoch_filename, raised, wvars>>

\* Lines 95-98: the completion notification.
NotifyFinished ==
    /\ pc = "notify"
    /\ calls' = calls \o Slack(<<"Model finished training!">> \o best_epoch_filename)
    /\ pc' = "evaluate"
    /\ UNCHANGED <<progArgs, vocabulary, best_epoch_filename, raised, wvars>>

\* Lines 119-124: one notification per entry of dict_results.
RECURSIVE MetricMessages(_)
MetricMessages(n) ==
    IF n = 0 THEN <<>>
    ELSE MetricMessages(n - 1) \o Slack(<<"metric after training">>)

\* Lines 100-124: the branch on the task and the dev-set evaluation.
DevEvaluation ==
    /\ pc = "evaluate"
    /\ IF ~ModelArgsBound
       THEN \* line 100 reads model_args.Task
            /\ raised' = "NameError"
            /\ pc' = "raised"
            /\ calls' = calls
       ELSE IF progArgs.task = "PLAN_PREDICTOR"
       THEN IF progArgs.slack /\ ~FinalGoalAccBound
            THEN \* line 108 reads final_goal_acc
                 /\ raised' = "NameError"
                 /\ pc' = "raised"
                 /\ calls' = Append(calls, Called("plan_metric_results", <<>>, <<>>))
            ELSE /\ raised' = raised
                 /\ pc' = "done"
                 /\ calls' = Append(calls, Called("plan_metric_results", <<>>, <<>>))
                        \o Slack(<<"Final goal-prediction accuracy">>)
       ELSE IF progArgs.task = "ACTION_GENERATOR"
       THEN \E n \in 0..MaxMetrics :
                 /\ raised' = raised
                 /\ pc' = "done"
                 /\ calls' = Append(calls,
                        Called("execution_accuracies", <<>>, [i \in 1..n |-> "metric"]))
                        \o MetricMessages(n)
       ELSE /\ raised' = raised
            /\ pc' = "done"
            /\ calls' = calls
    /\ UNCHANGED <<progArgs, vocabulary, best_epoch_filename, wvars>>

\* The state of train before it is called.
TrainIdle ==
    /\ pc = "idle"
    /\ progArgs = [task |-> "OTHER_TASK", slack |-> FALSE, pretrained |-> FALSE,
                   filepath |-> <<>>, datasetVocabulary |-> "vocabA"]
    /\ vocabulary = [source |-> "unset", value |-> <<>>]
    /\ best_epoch_filename = None
    /\ calls = <<>>
    /\ raised = "none"

\* The state right after ModelWrapper.__init__.
Init ==
    /\ deviceCount \in 0..MaxDevices
    /\ \E t \in Tasks : _args = [task |-> t] /\ _task = InitTask([task |-> t])
    /\ _parallelized = InitParallelized(deviceCount)
    /\ _model = None
    /\ params = "theta0"
    /\ training = TRUE
    /\ onCuda = FALSE
    /\ fs = [f \in Files |-> NoFile]
    /\ saved = [f \in Files |-> NotSaved]
    /\ constructedWith = [devices |-> deviceCount, task |-> _args.task]
    /\ putCalls = 0
    /\ last = Call("__init__", "-", "ok", None, None)
    /\ TrainIdle

Next ==
    \/ Construct
    \/ AttachModule
    \/ DeviceCountChanges
    \/ OptimizerStep
    \/ _put_on_device
    \/ named_parameters
    \/ get_arguments
    \/ parameters
    \/ train
    \/ eval
    \/ \E f \in Files : load(f)
    \/ \E f \in Files : save(f)
    \/ get_predictions
    \/ get_task

Spec == Init /\ [][Next]_vars

\* A wrapper that train does not touch in this model.
WrapperIdle ==
    /\ deviceCount = 0
    /\ _args = [task |-> progArgs.task]
    /\ _task = InitTask(_args)
    /\ _parallelized = InitParallelized(deviceCount)
    /\ _model = None
    /\ params = "theta0"
    /\ training = TRUE
    /\ onCuda = FALSE
    /\ fs = [f \in Files |-> NoFile]
    /\ saved = [f \in Files |-> NotSaved]
    /\ constructedWith = [devices |-> deviceCount, task |-> _args.task]
    /\ putCalls = 0
    /\ last = Call("__init__", "-", "ok", None, None)

\* The state when train(args) is entered.
InitTrain ==
    /\ pc = "start"
    /\ progArgs \in [task : Tasks, slack : BOOLEAN, pretrained : BOOLEAN,
                     filepath : Paths, datasetVocabulary : DatasetVocabularies]
    /\ vocabulary = [source |-> "unset", value |-> <<>>]
    /\ best_epoch_filename = None
    /\ calls = <<>>
    /\ raised = "none"
    /\ WrapperIdle

NextTrain ==
    \/ Setup
    \/ ResolveVocabulary
    \/ CreateModelWrapper
    \/ RunTrainLoop
    \/ ReloadBest
    \/ NotifyFinished
    \/ DevEvaluation

SpecTrain == InitTrain /\ [][NextTrain]_vars

----------------------------------------------------------------------------
(* Properties of ModelWrapper, checked under Spec.                         *)

\* The module is attached and, on a parallelized wrapper, _put_on_device has
\* wrapped it once; on a non-parallelized wrapper it is bare.
ProperlyWrapped ==
    /\ Leaf(_model) = OwnedModule
    /\ WrapDepth(_model) = (IF _parallelized THEN 1 ELSE 0)

LastIs(op) == last.op = op
LastOk(op) == last.op = op /\ last.outcome = "ok"

\* C4: save(f) followed by load(f) restores the parameter values the owned
\* module had at the save, whatever changed them in between, on a
\* parallelized and on a non-parallelized wrapper: a completed load(f) leaves
\* the values the last completed save(f) stored, and on a properly wrapped
\* wrapper save always completes and load of a saved file always completes.
C4_SaveLoadRoundTrip ==
    /\ \A f \in Files :
         (LastOk("load") /\ last.file = f /\ saved[f].written)
             => params = saved[f].theta
    /\ (LastIs("save") /\ ProperlyWrapped)
           => /\ last.outcome = "ok"
              /\ saved[last.file].written
              /\ saved[last.file].theta = params
    /\ (LastIs("load") /\ ProperlyWrapped /\ saved[last.file].written)
           => last.outcome = "ok"

\* C4 witness: a parallelized wrapper completed load(f) on a file it saved,
\* and the load changed the parameter values back (they had changed since).
C4_Witness ==
    /\ LastOk("load")
    /\ _parallelized
    /\ saved[last.file].written
    /\ saved[last.file].by = _parallelized
    /\ last.before # params
    /\ params = saved[last.file].theta

\* C5: checkpoints are topology-independent: save is forwarded to the owned
\* module and never to the container, every stored file holds the owned
\* module's own (unprefixed) state dict, and a properly wrapped wrapper loads
\* a file saved by a wrapper of the other topology and gets the saved values.
C5_TopologyIndependent ==
    /\ LastOk("save") => last.receiver = OwnedModule
    /\ \A f \in Files :
         fs[f] # NoFile =>
             /\ saved[f].written
             /\ fs[f] = NamedParametersOf(OwnedModule, saved[f].theta)
    /\ (LastIs("load") /\ ProperlyWrapped /\ saved[last.file].written
            /\ saved[last.file].by # _parallelized)
           => /\ last.outcome = "ok"
              /\ last.receiver = OwnedModule
              /\ params = saved[last.file].theta

\* C5 witness: a non-parallelized wrapper loaded, with effect, a file that a
\* parallelized wrapper saved.
C5_Witness ==
    /\ LastOk("load")
    /\ ~_parallelized
    /\ saved[last.file].written
    /\ saved[last.file].by
    /\ last.before # params
    /\ params = saved[last.file].theta

\* C6: the parallelized flag is what __init__ computed from the device count
\* it saw (more than one device), and no later operation changes it.
C6_ParallelizedFixed ==
    _parallelized = (constructedWith.devices > 1)

\* C6 witness: a parallelized wrapper ran _put_on_device while fewer than
\* two devices were visible, and is still parallelized.
C6_Witness ==
    /\ LastOk("_put_on_device")
    /\ _parallelized
    /\ deviceCount < 2
    /\ constructedWith.devices # deviceCount

\* C8: get_task returns the task read from the model arguments at
\* construction, and no operation changes it.
C8_TaskFixed ==
    /\ _task = constructedWith.task
    /\ LastIs("get_task") => (last.outcome = "ok" /\ last.ret = constructedWith.task)

\* C8 witness: get_task answered on a wrapper that has been wrapped,
\* switched to eval mode and saved, with a task other than plan-predictor.
C8_Witness ==
    /\ LastOk("get_task")
    /\ last.ret = "ACTION_GENERATOR"
    /\ WrapDepth(_model) >= 1
    /\ ~training
    /\ \E f \in Files : saved[f].written /\ saved[f].theta # params


\* C7 as stated: on a properly wrapped wrapper named_parameters and
\* parameters are both forwarded to the owned module itself and return its
\* parameters (under its own names).
C7_BothUnwrap ==
    /\ (LastIs("named_parameters") /\ ProperlyWrapped)
           => /\ last.outcome = "ok"
              /\ last.receiver = OwnedModule
              /\ last.ret = NamedParametersOf(OwnedModule, params)
    /\ (LastIs("parameters") /\ ProperlyWrapped)
           => /\ last.outcome = "ok"
              /\ last.receiver = OwnedModule
              /\ last.ret = ParametersOf(OwnedModule, params)

\* C7 amended: named_parameters is forwarded to the owned module itself,
\* unwrapping the container of a parallelized wrapper, and returns the owned
\* module's parameters under its own names; parameters is forwarded to
\* self._model as it is (the container, on a parallelized wrapper) and
\* returns the same parameter tensors as the owned module's.
C7_NamedUnwrapsParametersDoesNot ==
    /\ (LastIs("named_parameters") /\ ProperlyWrapped)
           => /\ last.outcome = "ok"
              /\ last.receiver = OwnedModule
              /\ last.ret = NamedParametersOf(OwnedModule, params)
    /\ (LastIs("parameters") /\ Leaf(_model) = OwnedModule)
           => /\ last.outcome = "ok"
              /\ last.receiver = _model
              /\ last.ret = ParametersOf(OwnedModule, params)

\* C7 witness: parameters answered on a parallelized, properly wrapped
\* wrapper, through the container.
C7_Witness ==
    /\ LastOk("parameters")
    /\ _parallelized
    /\ ProperlyWrapped
    /\ last.receiver = DataParallel(OwnedModule)
    /\ last.ret = ParametersOf(OwnedModule, params)

\* C10 as stated: on a parallelized wrapper, after one or more calls of
\* _put_on_device the owned module is inside exactly one container and
\* .module reaches the owned module; a non-parallelized wrapper never wraps.
C10_ExactlyOneContainer ==
    /\ (_parallelized /\ Leaf(_model) = OwnedModule /\ putCalls >= 1)
           => /\ WrapDepth(_model) = 1
              /\ ModuleAttr(_model) = OwnedModule
    /\ ~_parallelized => WrapDepth(_model) = 0

\* C10 amended: on a parallelized wrapper every call of _put_on_device adds
\* one container: after exactly one call the owned module is inside exactly
\* one container and .module reaches the owned module itself; after more
\* than one call .module reaches another container. A non-parallelized
\* wrapper never wraps, after any number of calls.
C10_OneContainerPerCall ==
    /\ _parallelized => WrapDepth(_model) = putCalls
    /\ (_parallelized /\ Leaf(_model) = OwnedModule /\ putCalls = 1)
           => ModuleAttr(_model) = OwnedModule
    /\ (_parallelized /\ putCalls > 1)
           => Head(ModuleAttr(_model)) = "DataParallel"
    /\ ~_parallelized => WrapDepth(_model) = 0

\* C10 witness: after two calls on a parallelized wrapper the module is
\* inside two containers and save, going through .module, finds no save.
C10_Witness ==
    /\ _parallelized
    /\ Leaf(_model) = OwnedModule
    /\ putCalls = 2
    /\ WrapDepth(_model) = 2
    /\ LastIs("save")
    /\ last.outcome = "AttributeError"

----------------------------------------------------------------------------
(* Properties of train, checked under SpecTrain.                           *)

\* The positions of the calls of fn in the order train made them.
CallsOf(fn) == {i \in 1..Len(calls) : calls[i].fn = fn}
WasCalled(fn) == CallsOf(fn) # {}

\* train has ended, normally or by an exception.
Ended == pc \in {"done", "raised"}
\* train is past line 94, the reload of the best checkpoint.
PastReload == pc \in {"notify", "evaluate", "done", "raised"}
\* train is past lines 69-80, the vocabulary resolution.
PastVocabulary == pc \notin {"start", "vocabulary"}

\* C1: in a run that got past the reload, a plan-predictor task is evaluated
\* through plan_metric_results and never execution_accuracies, an
\* action-generator task through execution_accuracies and never
\* plan_metric_results, and any other task through neither, ending normally.
C1_TaskBranching ==
    Ended =>
        /\ progArgs.task = "PLAN_PREDICTOR"
               => (WasCalled("plan_metric_results") /\ ~WasCalled("execution_accuracies"))
        /\ progArgs.task = "ACTION_GENERATOR"
               => (WasCalled("execution_accuracies") /\ ~WasCalled("plan_metric_results"))
        /\ progArgs.task \notin {"PLAN_PREDICTOR", "ACTION_GENERATOR"}
               => /\ ~WasCalled("plan_metric_results")
                  /\ ~WasCalled("execution_accuracies")
                  /\ pc = "done"

\* C2: train_loop is called at most once and model.load at most once; once
\* train is past the reload each was called exactly once, load with exactly
\* the path train_loop returned and after it; and the completion
\* notification and every evaluation call come after the load.
C2_ReloadsBestOnce ==
    /\ Cardinality(CallsOf("train_loop")) <= 1
    /\ Cardinality(CallsOf("load")) <= 1
    /\ PastReload =>
         /\ Cardinality(CallsOf("train_loop")) = 1
         /\ Cardinality(CallsOf("load")) = 1
         /\ \A i \in CallsOf("train_loop") : \A j \in CallsOf("load") :
                i < j /\ calls[j].arg = calls[i].ret
    /\ \A k \in 1..Len(calls) :
         (\/ calls[k].fn \in {"plan_metric_results", "execution_accuracies"}
          \/ (calls[k].fn = "send_slack_message" /\ calls[k].arg # <<"Starting!">>))
             => \E j \in CallsOf("load") : j < k

\* C2 witness: the second checkpoint was returned and reloaded, and the
\* completion notification followed the load.
C2_Witness ==
    /\ PastReload
    /\ best_epoch_filename = <<"epoch2">>
    /\ \E j \in CallsOf("load") :
         /\ calls[j].arg = <<"epoch2">>
         /\ \E k \in CallsOf("send_slack_message") : k > j

\* The path with its last '/'-separated component removed: what precedes
\* the last '/', and nothing when the path holds no '/'.
ParentDirectory(path) ==
    IF \A i \in 1..Len(path) : path[i] # "/"
    THEN <<>>
    ELSE LET k == CHOOSE i \in 1..Len(path) :
                      path[i] = "/" /\ \A j \in (i + 1)..Len(path) : path[j] # "/"
         IN SubSeq(path, 1, k - 1)

\* C3: past the vocabulary resolution exactly one branch has run: with a
\* pretrained plan predictor the vocabulary was loaded once, from the parent
\* directory of the predictor's file path, nothing was derived from the
\* dataset and save_vocabulary was not called; otherwise the dataset's
\* vocabulary was derived and save_vocabulary called on the save directory,
\* both before the model wrapper is created, which receives that vocabulary.
C3_VocabularyResolution ==
    /\ ~PastVocabulary =>
         /\ ~WasCalled("load_vocabulary")
         /\ ~WasCalled("get_instruction_vocabulary")
         /\ ~WasCalled("save_vocabulary")
         /\ ~WasCalled("get_model_wrapper")
    /\ (PastVocabulary /\ progArgs.pretrained) =>
         /\ Cardinality(CallsOf("load_vocabulary")) = 1
         /\ \A i \in CallsOf("load_vocabulary") :
                calls[i].arg = ParentDirectory(progArgs.filepath)
         /\ ~WasCalled("get_instruction_vocabulary")
         /\ ~WasCalled("save_vocabulary")
         /\ \A m \in CallsOf("get_model_wrapper") :
                calls[m].arg = <<"file">> \o ParentDirectory(progArgs.filepath)
    /\ (PastVocabulary /\ ~progArgs.pretrained) =>
         /\ ~WasCalled("load_vocabulary")
         /\ Cardinality(CallsOf("get_instruction_vocabulary")) = 1
         /\ Cardinality(CallsOf("save_vocabulary")) = 1
         /\ \A i \in CallsOf("save_vocabulary") :
                /\ calls[i].arg = SaveDirectory
                /\ \A m \in CallsOf("get_model_wrapper") : i < m
         /\ \A m \in CallsOf("get_model_wrapper") :
                calls[m].arg = <<"dataset", progArgs.datasetVocabulary>>

\* C3 witness: a pretrained predictor at "a/b": the vocabulary came from "a"
\* and the model wrapper was created with it.
C3_Witness ==
    /\ progArgs.pretrained
    /\ progArgs.filepath = <<"a", "/", "b">>
    /\ WasCalled("get_model_wrapper")
    /\ \E i \in CallsOf("load_vocabulary") : calls[i].arg = <<"a">>

\* The notifications of dev-set metrics among the calls.
MetricNotifications ==
    {k \in CallsOf("send_slack_message") :
        calls[k].arg \in {<<"Final goal-prediction accuracy">>, <<"metric after training">>}}

\* C9: a run that ended has reported every metric: with slack logging, a
\* plan-predictor run sent the final goal-prediction accuracy after
\* plan_metric_results and an action-generator run one notification per
\* entry of the execution-accuracy results, both ending normally; without
\* slack logging no notification was sent at all.
C9_MetricsReported ==
    Ended =>
        /\ (progArgs.slack /\ progArgs.task = "PLAN_PREDICTOR") =>
              /\ pc = "done"
              /\ \E i \in CallsOf("plan_metric_results") :
                   \E k \in MetricNotifications :
                       k > i /\ calls[k].arg = <<"Final goal-prediction accuracy">>
        /\ (progArgs.slack /\ progArgs.task = "ACTION_GENERATOR") =>
              /\ pc = "done"
              /\ \E i \in CallsOf("execution_accuracies") :
                   Cardinality(MetricNotifications) = Len(calls[i].ret)
        /\ ~progArgs.slack => ~WasCalled("send_slack_message")

====
